---- MODULE Spec2Model ----
(***************************************************************************)
(* B+ tree diagram generator (btree.py): the addressable tree model        *)
(* (class BPlusTree) and the graph emitter (nodes, parent-child edges,     *)
(* leaf cross edges).                                                      *)
(*                                                                         *)
(* A block address is a sequence of child numbers, the root being <<>>.    *)
(* Python's None is None for an address and NoKeys for a key list; a       *)
(* raised exception is a value of its own (TypeError, IndexError, "raise").*)
(* Text produced with str.format is a sequence of tokens.                  *)
(***************************************************************************)
EXTENDS Integers, Sequences, FiniteSets, TLC

\* Bounds of the input descriptions
MaxKeysPerBlock == 2
MaxDepth == 2
MaxBlocks == 6
MaxKeys == 2
QueryMaxBlocks == 2

VARIABLES
    keys_per_block,      \* data['keys_per_block']
    tree,                \* data['tree'], the nested input description
    indexed_blocks,      \* BPlusTree._indexed_blocks, in insertion order
    nodes,               \* node definitions of generate_dot_graph
    parent_child_edges,  \* edges yielded by generate_parent_child_edges
    cross_edges,         \* edges yielded so far by generate_cross_edges
    index,               \* local `index` of generate_cross_edges
    adjacent_leaves,     \* local `adjacent_leaves` of generate_cross_edges
    pc,                  \* position in main / generate_dot_graph
    q                    \* last query made on the tree model and its result

vars == <<keys_per_block, tree, indexed_blocks, nodes, parent_child_edges,
          cross_edges, index, adjacent_leaves, pc, q>>

-----------------------------------------------------------------------------
\* Python values

None == <<-1>>                  \* None where an address is expected
NoneNum == -1                   \* None where a child number is expected
NoKeys == <<"None">>            \* None where a key list is expected
TypeError == <<"TypeError">>    \* a key lookup that raised TypeError
IndexError == <<"IndexError">>  \* a key lookup that raised IndexError
IndexErrorIdx == <<-2>>         \* an address computation that raised IndexError
DUMMY_KEY == "_"

Digits == <<"0", "1", "2", "3", "4", "5", "6", "7", "8", "9">>

\* str(i) of a small natural
Str(i) == Digits[i + 1]

KeyNames == <<"a", "b", "c", "d", "e">>

\* a key list of n keys
KeysOfLen(n) == [i \in 1..n |-> KeyNames[i]]

-----------------------------------------------------------------------------
\* class BPlusTree

children_per_block == keys_per_block + 1

root_index == <<>>

_is_valid_child_num(num) == 0 <= num /\ num < children_per_block

_is_valid_index(idx) == \A i \in 1..Len(idx) : _is_valid_child_num(idx[i])

\* nth_child with the child number put in front of the parent address
NthChildPrepended(parent_index, child_num) ==
    IF ~_is_valid_child_num(child_num) THEN IndexErrorIdx
    ELSE <<child_num>> \o parent_index

nth_child(parent_index, child_num) ==
    IF ~_is_valid_child_num(child_num) THEN IndexErrorIdx
    ELSE Append(parent_index, child_num)

children(idx) == [i \in 1..children_per_block |-> nth_child(idx, i - 1)]

child_num(idx) == IF idx = root_index THEN NoneNum ELSE idx[Len(idx)]

parent(idx) == IF idx = root_index THEN None ELSE SubSeq(idx, 1, Len(idx) - 1)

\* right_sibling with the last-child test off by one: it never carries into
\* the parent's right neighbour
RECURSIVE RightSiblingNoCarry(_)
RightSiblingNoCarry(idx) ==
    IF idx = root_index THEN None
    ELSE IF child_num(idx) <= children_per_block - 1
         THEN nth_child(parent(idx), child_num(idx) + 1)
         ELSE LET parent_sibling == RightSiblingNoCarry(parent(idx))
              IN  IF parent_sibling = None THEN None
                  ELSE nth_child(parent_sibling, 0)

RECURSIVE right_sibling(_)
right_sibling(idx) ==
    IF idx = root_index THEN None
    ELSE IF child_num(idx) < children_per_block - 1
         THEN nth_child(parent(idx), child_num(idx) + 1)
         ELSE LET parent_sibling == right_sibling(parent(idx))
              IN  IF parent_sibling = None THEN None
                  ELSE nth_child(parent_sibling, 0)

\* dict.get(index, None) on the insertion-ordered mapping
Lookup(blocks, idx) ==
    IF \E i \in 1..Len(blocks) : blocks[i].index = idx
    THEN blocks[CHOOSE i \in 1..Len(blocks) : blocks[i].index = idx].keys
    ELSE NoKeys

\* self[index]; iterating None in _is_valid_index is a TypeError
getitem(idx) ==
    IF idx = None THEN TypeError
    ELSE IF ~_is_valid_index(idx) THEN IndexError
    ELSE Lookup(indexed_blocks, idx)

\* truth value of a key list: None and [] are false
Truthy(keys) == keys # NoKeys /\ Len(keys) > 0

RECURSIVE was_omitted(_)
was_omitted(idx) ==
    LET parent_keys == getitem(parent(idx))
    IN  IF parent_keys \in {TypeError, IndexError} THEN "raise"
        ELSE IF Truthy(parent_keys)
             THEN IF child_num(idx) <= Len(parent_keys) THEN "true" ELSE "false"
             ELSE was_omitted(parent(idx))

\* _add_block: the blocks of a description in insertion order
RECURSIVE _add_block(_, _)
RECURSIVE AddChildren(_, _, _)
_add_block(idx, block_tree) ==
    LET block == IF block_tree.tag # "dict"
                 THEN [tag |-> "dict", keys |-> block_tree.items, children |-> <<>>]
                 ELSE block_tree
    IN  <<[index |-> idx, keys |-> block.keys]>> \o AddChildren(idx, block.children, 1)
AddChildren(idx, child_trees, i) ==
    IF i > Len(child_trees) THEN <<>>
    ELSE _add_block(nth_child(idx, i - 1), child_trees[i])
         \o AddChildren(idx, child_trees, i + 1)

\* truth value of data['tree']: None, [] and {} are false
TreeTruthy(t) ==
    CASE t.tag = "none" -> FALSE
      [] t.tag = "list" -> Len(t.items) > 0
      [] OTHER -> TRUE

-----------------------------------------------------------------------------
\* Graph emitter

\* 'block' + '.'.join(str(i) for i in index)
RECURSIVE JoinDots(_)
JoinDots(idx) ==
    IF Len(idx) = 0 THEN <<>>
    ELSE IF Len(idx) = 1 THEN <<Str(idx[1])>>
    ELSE <<Str(idx[1]), ".">> \o JoinDots(Tail(idx))

generate_node_name(idx) == <<"block">> \o JoinDots(idx)

CONNECTOR_NAME(number) == <<"connector", Str(number)>>

KEY_NAME(number) == <<"key", Str(number)>>

find_middle_port_name ==
    IF keys_per_block % 2 # 0 THEN KEY_NAME(keys_per_block \div 2)
    ELSE CONNECTOR_NAME((keys_per_block + 1) \div 2)

\* pad(iterable, count, default): the first count items, default where missing
pad(keys, count, default) ==
    [i \in 1..count |-> IF i <= Len(keys) THEN keys[i] ELSE default]

\* the cells of one node: connector and key cells of each padded key, then
\* the last connector
RECURSIVE CellsFrom(_, _)
CellsFrom(padded, i) ==
    IF i > Len(padded) THEN <<>>
    ELSE <<[kind |-> "connector", port |-> CONNECTOR_NAME(i - 1), content |-> ""],
           [kind |-> "key", port |-> KEY_NAME(i - 1), content |-> padded[i]]>>
         \o CellsFrom(padded, i + 1)

\* generate_node_cells without the closing connector cell
NodeCellsWithoutLastConnector(keys) ==
    CellsFrom(pad(keys, keys_per_block, DUMMY_KEY), 1)

generate_node_cells(keys) ==
    CellsFrom(pad(keys, keys_per_block, DUMMY_KEY), 1)
    \o <<[kind |-> "connector", port |-> CONNECTOR_NAME(children_per_block - 1),
          content |-> ""]>>

generate_dot_node(idx, keys) ==
    [name |-> generate_node_name(idx), cells |-> generate_node_cells(keys)]

\* the children of a block that have mapped keys, left to right
ExistingChildren(idx) ==
    SelectSeq(children(idx), LAMBDA c : getitem(c) # NoKeys)

\* the edges of generate_parent_child_edges with the connectors counted from 1
RECURSIVE EdgesOfChildrenFromOne(_, _, _)
RECURSIVE generate_parent_child_edges(_)
RECURSIVE EdgesOfChildren(_, _, _)
generate_parent_child_edges(idx) ==
    EdgesOfChildren(idx, ExistingChildren(idx), 1)
EdgesOfChildrenFromOne(idx, kids, i) ==
    IF i > Len(kids) THEN <<>>
    ELSE <<[src_node |-> generate_node_name(idx),
            src_port |-> CONNECTOR_NAME(i),
            dst_node |-> generate_node_name(kids[i]),
            dst_port |-> find_middle_port_name]>>
         \o generate_parent_child_edges(kids[i])
         \o EdgesOfChildrenFromOne(idx, kids, i + 1)
EdgesOfChildren(idx, kids, i) ==
    IF i > Len(kids) THEN <<>>
    ELSE <<[src_node |-> generate_node_name(idx),
            src_port |-> CONNECTOR_NAME(i - 1),
            dst_node |-> generate_node_name(kids[i]),
            dst_port |-> find_middle_port_name]>>
         \o generate_parent_child_edges(kids[i])
         \o EdgesOfChildren(idx, kids, i + 1)

Max(S) == CHOOSE m \in S : \A x \in S : x <= m

RECURSIVE find_max_level(_)
find_max_level(idx) ==
    IF getitem(idx) = NoKeys THEN 0
    ELSE 1 + Max({find_max_level(children(idx)[i]) : i \in 1..children_per_block})

\* CollectLeaves that walks on over an omitted block
RECURSIVE CollectLeavesAcrossOmitted(_, _)
CollectLeavesAcrossOmitted(idx, found) ==
    IF idx = None THEN [raised |-> FALSE, leaves |-> found]
    ELSE IF getitem(idx) # NoKeys
         THEN CHOOSE r \in {CollectLeavesAcrossOmitted(next, more) :
                              next \in {right_sibling(idx)},
                              more \in {Append(found, idx)}} : TRUE
         ELSE IF was_omitted(idx) = "raise" THEN [raised |-> TRUE, leaves |-> <<>>]
              ELSE CHOOSE r \in {CollectLeavesAcrossOmitted(next, found) :
                                   next \in {right_sibling(idx)}} : TRUE

\* the loop of find_adjacent_leaves from idx on, `found` being the blocks
\* yielded so far: the run, or raised when was_omitted raises. Each step binds
\* the next index and the blocks found as values before the loop goes on.
RECURSIVE CollectLeaves(_, _)
CollectLeaves(idx, found) ==
    IF idx = None THEN [raised |-> FALSE, leaves |-> found]
    ELSE IF getitem(idx) # NoKeys
         THEN CHOOSE r \in {CollectLeaves(next, more) :
                              next \in {right_sibling(idx)},
                              more \in {Append(found, idx)}} : TRUE
         ELSE IF was_omitted(idx) = "raise" THEN [raised |-> TRUE, leaves |-> <<>>]
              ELSE IF was_omitted(idx) = "true" THEN [raised |-> FALSE, leaves |-> found]
              ELSE CHOOSE r \in {CollectLeaves(next, found) :
                                   next \in {right_sibling(idx)}} : TRUE

\* list(find_adjacent_leaves(tree, index))
find_adjacent_leaves(idx) == CollectLeaves(idx, <<>>)

\* pairwise(leaves) turned into cross edges
generate_cross_edge_range(leaves) ==
    [i \in 1..(IF Len(leaves) = 0 THEN 0 ELSE Len(leaves) - 1) |->
        [src_node |-> generate_node_name(leaves[i]),
         src_port |-> CONNECTOR_NAME(keys_per_block),
         dst_node |-> generate_node_name(leaves[i + 1]),
         dst_port |-> CONNECTOR_NAME(0),
         constraint |-> FALSE]]

\* index = nth_child(index, 0), repeated count times
RECURSIVE DescendLeft(_, _)
DescendLeft(idx, count) ==
    IF count <= 0 THEN idx ELSE DescendLeft(nth_child(idx, 0), count - 1)

\* while index is not None and tree[index] is None: index = right_sibling(index)
RECURSIVE SkipUnmapped(_)
SkipUnmapped(idx) ==
    IF idx # None /\ getitem(idx) = NoKeys
    THEN CHOOSE r \in {SkipUnmapped(next) : next \in {right_sibling(idx)}} : TRUE
    ELSE idx

-----------------------------------------------------------------------------
\* Input descriptions: the YAML documents main() can load

\* all addresses of at most d components, each below k + 1
RECURSIVE AddressesUpTo(_, _)
AddressesUpTo(k, d) ==
    IF d = 0 THEN {<<>>}
    ELSE LET shorter == AddressesUpTo(k, d - 1)
         IN  shorter \cup {Append(a, i) : a \in shorter, i \in 0..k}

NumChildren(S, a, k) == Cardinality({i \in 0..k : Append(a, i) \in S})

\* the sets of addresses a nested description of n blocks can fill: a
\* `children` list fills the child numbers 0..len-1 of its block
RECURSIVE ShapesOfSize(_, _, _)
ShapesOfSize(n, k, d) ==
    IF n = 1 THEN {{<<>>}}
    ELSE UNION {{S \cup {Append(a, NumChildren(S, a, k))} :
                   a \in {b \in S : Len(b) < d /\ NumChildren(S, b, k) <= k}} :
                S \in ShapesOfSize(n - 1, k, d)}

Shapes(k, d, m) == UNION {ShapesOfSize(n, k, d) : n \in 1..m}

\* the nested description of the blocks S below address a: a structure with
\* keys and children, or a bare key list for a leaf written in short form
RECURSIVE Describe(_, _, _, _, _)
Describe(S, lens, short, k, a) ==
    LET n == NumChildren(S, a, k)
    IN  IF n = 0 /\ short
        THEN [tag |-> "list", items |-> KeysOfLen(lens[a])]
        ELSE [tag |-> "dict", keys |-> KeysOfLen(lens[a]),
              children |-> [i \in 1..n |-> Describe(S, lens, short, k, Append(a, i - 1))]]

Min(x, y) == IF x <= y THEN x ELSE y

\* the key counts of the blocks S: at most k keys a block, at most `budget`
\* keys in the whole description
RECURSIVE KeyCounts(_, _, _)
KeyCounts(S, k, budget) ==
    IF S = {} THEN {<<>>}
    ELSE LET a == CHOOSE b \in S : TRUE
         IN  UNION {{(a :> n) @@ f : f \in KeyCounts(S \ {a}, k, budget - n)} :
                      n \in 0..Min(k, budget)}

\* the descriptions of at most m blocks, at most d levels below the root, and
\* the missing description (`tree:` left empty)
Descriptions(k, d, m) ==
    {[tag |-> "none"]} \cup
    UNION {{Describe(S, lens, short, k, <<>>) :
              lens \in KeyCounts(S, k, MaxKeys), short \in BOOLEAN} :
           S \in Shapes(k, d, m)}

-----------------------------------------------------------------------------
\* main() and generate_dot_graph, one action per generator

InitWith(m) ==
    /\ keys_per_block \in 1..MaxKeysPerBlock
    /\ tree \in Descriptions(keys_per_block, MaxDepth, m)
    /\ indexed_blocks = <<>>
    /\ nodes = <<>>
    /\ parent_child_edges = <<>>
    /\ cross_edges = <<>>
    /\ index = None
    /\ adjacent_leaves = <<>>
    /\ pc = "start"
    /\ q = [op |-> "none"]

Init == InitWith(MaxBlocks)

\* BPlusTree(data['keys_per_block'], data['tree'])
Construct ==
    /\ pc = "start"
    /\ indexed_blocks' = IF TreeTruthy(tree) THEN _add_block(root_index, tree)
                                             ELSE <<>>
    /\ pc' = "built"
    /\ UNCHANGED <<keys_per_block, tree, nodes, parent_child_edges, cross_edges,
                   index, adjacent_leaves, q>>

\* generate_dot_node for every pair of all_blocks
GenerateNodes ==
    /\ pc = "built"
    /\ nodes' = [i \in 1..Len(indexed_blocks) |->
                    generate_dot_node(indexed_blocks[i].index, indexed_blocks[i].keys)]
    /\ pc' = "nodes"
    /\ UNCHANGED <<keys_per_block, tree, indexed_blocks, parent_child_edges,
                   cross_edges, index, adjacent_leaves, q>>

GenerateParentChildEdges ==
    /\ pc = "nodes"
    /\ parent_child_edges' = generate_parent_child_edges(root_index)
    /\ pc' = "edges"
    /\ UNCHANGED <<keys_per_block, tree, indexed_blocks, nodes, cross_edges,
                   index, adjacent_leaves, q>>

\* generate_cross_edges up to its `while True`
CrossStart ==
    /\ pc = "edges"
    /\ index' = DescendLeft(root_index, find_max_level(root_index) - 1)
    /\ pc' = "scan"
    /\ UNCHANGED <<keys_per_block, tree, indexed_blocks, nodes, parent_child_edges,
                   cross_edges, adjacent_leaves, q>>

\* CrossRun that goes on from the last block of the run instead of from its
\* right sibling
CrossRunFromLastBlock ==
    /\ pc = "scan"
    /\ SkipUnmapped(index) # None
    /\ LET start == SkipUnmapped(index)
           run == find_adjacent_leaves(start)
       IN  IF run.raised
           THEN /\ pc' = "raised"
                /\ index' = start
                /\ UNCHANGED <<cross_edges, adjacent_leaves>>
           ELSE /\ adjacent_leaves' = run.leaves
                /\ cross_edges' = cross_edges \o generate_cross_edge_range(run.leaves)
                /\ index' = run.leaves[Len(run.leaves)]
                /\ pc' = "scan"
    /\ UNCHANGED <<keys_per_block, tree, indexed_blocks, nodes, parent_child_edges, q>>

\* one iteration of the `while True` that collects a run and yields its edges,
\* or fails when was_omitted raises
CrossRun ==
    /\ pc = "scan"
    /\ SkipUnmapped(index) # None
    /\ LET start == SkipUnmapped(index)
           run == find_adjacent_leaves(start)
       IN  IF run.raised
           THEN /\ pc' = "raised"
                /\ index' = start
                /\ UNCHANGED <<cross_edges, adjacent_leaves>>
           ELSE /\ adjacent_leaves' = run.leaves
                /\ cross_edges' = cross_edges \o generate_cross_edge_range(run.leaves)
                /\ index' = right_sibling(run.leaves[Len(run.leaves)])
                /\ pc' = "scan"
    /\ UNCHANGED <<keys_per_block, tree, indexed_blocks, nodes, parent_child_edges, q>>

\* the iteration of the `while True` that finds no further block and returns
CrossReturn ==
    /\ pc = "scan"
    /\ SkipUnmapped(index) = None
    /\ index' = None
    /\ pc' = "done"
    /\ UNCHANGED <<keys_per_block, tree, indexed_blocks, nodes, parent_child_edges,
                   cross_edges, adjacent_leaves, q>>

Next ==
    \/ Construct
    \/ GenerateNodes
    \/ GenerateParentChildEdges
    \/ CrossStart
    \/ CrossRun
    \/ CrossReturn

Spec == Init /\ [][Next]_vars

\* the generators are consumed to the end: a started run of main() goes on
LiveSpec == Init /\ [][Next]_vars /\ WF_vars(Next)

-----------------------------------------------------------------------------
\* Queries on the tree model, made on a constructed tree

QueryAddresses == AddressesUpTo(keys_per_block, MaxDepth)

QueryNthChild ==
    /\ pc = "built"
    /\ \E a \in QueryAddresses, n \in -1..children_per_block :
          LET r == nth_child(a, n)
          IN  q' = [op |-> "nth_child", index |-> a, n |-> n, result |-> r,
                    parent |-> IF r = IndexErrorIdx THEN IndexErrorIdx ELSE parent(r),
                    child_num |-> IF r = IndexErrorIdx THEN NoneNum ELSE child_num(r)]
    /\ UNCHANGED <<keys_per_block, tree, indexed_blocks, nodes, parent_child_edges,
                   cross_edges, index, adjacent_leaves, pc>>

QueryRightSibling ==
    /\ pc = "built"
    /\ \E a \in QueryAddresses :
          q' = [op |-> "right_sibling", index |-> a, result |-> right_sibling(a)]
    /\ UNCHANGED <<keys_per_block, tree, indexed_blocks, nodes, parent_child_edges,
                   cross_edges, index, adjacent_leaves, pc>>

QueryWasOmitted ==
    /\ pc = "built"
    /\ \E a \in QueryAddresses :
          q' = [op |-> "was_omitted", index |-> a, result |-> was_omitted(a)]
    /\ UNCHANGED <<keys_per_block, tree, indexed_blocks, nodes, parent_child_edges,
                   cross_edges, index, adjacent_leaves, pc>>

QueryInit == InitWith(QueryMaxBlocks)

QueryNext ==
    \/ Construct
    \/ QueryNthChild
    \/ QueryRightSibling
    \/ QueryWasOmitted

QuerySpec == QueryInit /\ [][QueryNext]_vars

-----------------------------------------------------------------------------
\* Properties of the address arithmetic

\* an address read as a number in base children_per_block
RECURSIVE Rank(_)
Rank(a) ==
    IF Len(a) = 0 THEN 0
    ELSE Rank(SubSeq(a, 1, Len(a) - 1)) * children_per_block + a[Len(a)]

AllLast(a) == \A i \in 1..Len(a) : a[i] = children_per_block - 1

\* C9: for every valid address a and every i in [0, children_per_block),
\* parent(nth_child(a, i)) = a and child_num(nth_child(a, i)) = i
AddressRoundTrip ==
    (q.op = "nth_child" /\ 0 <= q.n /\ q.n < children_per_block)
        => /\ q.result # IndexErrorIdx
           /\ q.parent = q.index
           /\ q.child_num = q.n

RoundTripWitness ==
    /\ q.op = "nth_child"
    /\ Len(q.index) = 2
    /\ q.n = children_per_block - 1
    /\ q.parent = q.index

\* C5: right_sibling(root) is none; below the last child number the result
\* has the same parent and the next child number; at the last child number it
\* is child 0 of the parent's right neighbour, and none exactly when every
\* component of the address is the last child number
RightSiblingIsNextAddress ==
    q.op = "right_sibling" =>
        LET a == q.index
            r == q.result
        IN  /\ a = root_index => r = None
            /\ (a # root_index /\ a[Len(a)] < children_per_block - 1) =>
                   /\ r # None
                   /\ Len(r) = Len(a)
                   /\ SubSeq(r, 1, Len(r) - 1) = SubSeq(a, 1, Len(a) - 1)
                   /\ r[Len(r)] = a[Len(a)] + 1
            /\ (a # root_index /\ a[Len(a)] = children_per_block - 1) =>
                   /\ r = None <=> AllLast(a)
                   /\ r # None =>
                         /\ Len(r) = Len(a)
                         /\ r[Len(r)] = 0
                         /\ Rank(SubSeq(r, 1, Len(r) - 1))
                               = Rank(SubSeq(a, 1, Len(a) - 1)) + 1
            /\ (a # root_index /\ r # None) =>
                   /\ _is_valid_index(r)
                   /\ Rank(r) = Rank(a) + 1

RightSiblingWitness ==
    /\ q.op = "right_sibling"
    /\ Len(q.index) = 2
    /\ q.index[2] = children_per_block - 1
    /\ q.result # None
    /\ q.result[2] = 0

-----------------------------------------------------------------------------
\* Properties of was_omitted

IsMapped(a) == Lookup(indexed_blocks, a) # NoKeys

HasMappedAncestor(a) == \E n \in 0..(Len(a) - 1) : IsMapped(SubSeq(a, 1, n))

\* the length of the nearest proper ancestor of a that is in the mapping
NearestMappedLen(a) ==
    CHOOSE n \in 0..(Len(a) - 1) :
        /\ IsMapped(SubSeq(a, 1, n))
        /\ \A m \in (n + 1)..(Len(a) - 1) : ~IsMapped(SubSeq(a, 1, m))

\* whether a is expected to exist, derived from the key count of its nearest
\* mapped ancestor p: the child c of p towards a has child_num(c) < len(keys(p)) + 1
ExpectedByKeyCount(a) ==
    LET n == NearestMappedLen(a)
    IN  a[n + 1] < Len(Lookup(indexed_blocks, SubSeq(a, 1, n))) + 1

\* C2: for every valid non-root address with a mapped proper ancestor,
\* was_omitted is true iff the child towards it is within the children implied
\* by the key count of the nearest mapped ancestor, whatever that key count
WasOmittedFollowsKeyCount ==
    (q.op = "was_omitted" /\ q.index # root_index /\ HasMappedAncestor(q.index))
        => q.result = (IF ExpectedByKeyCount(q.index) THEN "true" ELSE "false")

\* C3: was_omitted returns a boolean on every valid non-root address that has
\* a mapped proper ancestor
WasOmittedNeverRaises ==
    (q.op = "was_omitted" /\ q.index # root_index /\ HasMappedAncestor(q.index))
        => q.result \in {"true", "false"}

-----------------------------------------------------------------------------
\* Properties of node generation

\* pre-order of addresses: an ancestor before its descendants, a left subtree
\* before a right one
PreOrderLess(a, b) ==
    \/ Len(a) < Len(b) /\ SubSeq(b, 1, Len(a)) = a
    \/ \E i \in 1..Len(a) :
          /\ i <= Len(b)
          /\ SubSeq(a, 1, i - 1) = SubSeq(b, 1, i - 1)
          /\ a[i] < b[i]

NodesGenerated == pc \in {"nodes", "edges", "scan", "done", "raised"}

\* C6: one node per pair of all_blocks, in construction (pre-order) order,
\* with cells connector0, key0, ..., key<k-1>, connector<k> for
\* k = keys_per_block, key cell i holding keys[i] or the placeholder '_'
NodePerBlockWithPaddedCells ==
    NodesGenerated =>
        /\ Len(nodes) = Len(indexed_blocks)
        /\ \A i, j \in 1..Len(indexed_blocks) :
              i < j => PreOrderLess(indexed_blocks[i].index, indexed_blocks[j].index)
        /\ \A i \in 1..Len(nodes) :
              LET keys == indexed_blocks[i].keys
                  cells == nodes[i].cells
              IN  /\ nodes[i].name = generate_node_name(indexed_blocks[i].index)
                  /\ Len(cells) = 2 * keys_per_block + 1
                  /\ \A c \in 0..keys_per_block :
                        /\ cells[2 * c + 1].kind = "connector"
                        /\ cells[2 * c + 1].port = <<"connector", Str(c)>>
                  /\ \A c \in 0..(keys_per_block - 1) :
                        /\ cells[2 * c + 2].kind = "key"
                        /\ cells[2 * c + 2].port = <<"key", Str(c)>>
                        /\ cells[2 * c + 2].content =
                              IF c < Len(keys) THEN keys[c + 1] ELSE "_"

\* three or more nodes, one of them with real keys followed by a placeholder
PaddedNodeWitness ==
    /\ NodesGenerated
    /\ Len(nodes) >= 3
    /\ keys_per_block = 2
    /\ \E i \in 2..Len(nodes) :
          /\ Len(indexed_blocks[i].keys) = 1
          /\ nodes[i].cells[2].content = "a"
          /\ nodes[i].cells[4].content = "_"

-----------------------------------------------------------------------------
\* Properties of the parent-child edges

MappedAddresses == {indexed_blocks[i].index : i \in 1..Len(indexed_blocks)}

\* the middle port of a node: the key cell keys_per_block / 2 of an odd
\* keys_per_block, the connector cell (keys_per_block + 1) / 2 of an even one
MiddlePort ==
    IF keys_per_block % 2 = 1 THEN <<"key", Str((keys_per_block - 1) \div 2)>>
    ELSE <<"connector", Str(keys_per_block \div 2)>>

\* the position of a mapped block among the mapped children of its parent
DenseChildPosition(c) ==
    Cardinality({i \in 0..(c[Len(c)] - 1) :
                   Append(SubSeq(c, 1, Len(c) - 1), i) \in MappedAddresses})

EdgesTo(edges, c) ==
    {i \in 1..Len(edges) : edges[i].dst_node = generate_node_name(c)}

ParentChildEdgesGenerated == pc \in {"edges", "scan", "done", "raised"}

-----------------------------------------------------------------------------
\* Properties of the cross edges

\* the addresses strictly between u and v on the right_sibling chain of
\* their level
Between(u, v) ==
    {x \in AddressesUpTo(keys_per_block, MaxDepth) :
        Len(x) = Len(u) /\ Rank(u) < Rank(x) /\ Rank(x) < Rank(v)}

IsCrossEdge(e, u, v) ==
    e.src_node = generate_node_name(u) /\ e.dst_node = generate_node_name(v)

\* u and v are on one level, u left of v, with nothing between them but
\* unmapped addresses for which was_omitted is false
Adjacent(u, v) ==
    /\ Len(u) = Len(v)
    /\ Rank(u) < Rank(v)
    /\ \A x \in Between(u, v) : x \notin MappedAddresses /\ was_omitted(x) = "false"

\* C1: every cross edge joins two mapped blocks u, v with v to the right of u
\* on the right_sibling chain, and every address between them is unmapped and
\* has was_omitted false
CrossEdgesNeverBridgeOmitted ==
    \A i \in 1..Len(cross_edges) :
        \E u, v \in MappedAddresses :
            IsCrossEdge(cross_edges[i], u, v) /\ Adjacent(u, v)

\* a cross edge over an unmapped address that is not expected to exist
BridgedUnexpectedWitness ==
    \E i \in 1..Len(cross_edges) :
        \E u, v \in MappedAddresses :
            /\ IsCrossEdge(cross_edges[i], u, v)
            /\ Between(u, v) # {}

DeepestLevel == Max({Len(a) : a \in MappedAddresses})

DeepestBlocks == {a \in MappedAddresses : Len(a) = DeepestLevel}

CrossEdgesFinished == pc \in {"done", "raised"}

\* C8: when cross-edge generation has finished, every two adjacent mapped
\* blocks of the deepest level are joined by exactly one cross edge, from
\* connector<keys_per_block> of the left block to connector0 of the right
\* one, also to the right of an omitted gap, and the edges are in left to
\* right order
CrossEdgesJoinEveryAdjacentPair ==
    (CrossEdgesFinished /\ MappedAddresses # {}) =>
        /\ \A u, v \in DeepestBlocks :
              Adjacent(u, v) =>
                  /\ Cardinality({i \in 1..Len(cross_edges) :
                                     IsCrossEdge(cross_edges[i], u, v)}) = 1
                  /\ \A i \in 1..Len(cross_edges) :
                        IsCrossEdge(cross_edges[i], u, v) =>
                            /\ cross_edges[i].src_port
                                  = <<"connector", Str(keys_per_block)>>
                            /\ cross_edges[i].dst_port = <<"connector", "0">>
        /\ \A i, j \in 1..Len(cross_edges) :
              i < j => \A u, v \in DeepestBlocks :
                          (/\ cross_edges[i].src_node = generate_node_name(u)
                           /\ cross_edges[j].src_node = generate_node_name(v))
                              => Rank(u) < Rank(v)

-----------------------------------------------------------------------------
\* Properties of single-block trees

SingleBlockInput ==
    \/ tree.tag = "list"
    \/ tree.tag = "dict" /\ Len(tree.children) = 0

InputRootKeys == IF tree.tag = "list" THEN tree.items ELSE tree.keys

\* C7: a tree that is only a root block with j keys, written as a bare key
\* list or as a structure, gives exactly one node with j real key cells and
\* keys_per_block - j placeholders, no parent-child edge and no cross edge
SingleBlockGivesOneNode ==
    (SingleBlockInput /\ pc = "done") =>
        /\ Len(nodes) = 1
        /\ \A c \in 0..(keys_per_block - 1) :
              nodes[1].cells[2 * c + 2].content =
                  IF c < Len(InputRootKeys) THEN InputRootKeys[c + 1] ELSE "_"
        /\ parent_child_edges = <<>>
        /\ cross_edges = <<>>

-----------------------------------------------------------------------------
\* Termination of generate_cross_edges

\* C10: the `while True` loop of generate_cross_edges finishes after
\* finitely many iterations, for every tree built from a description
CrossEdgesTerminate == <>(pc \in {"done", "raised"})

\* the loop returned after more than one run: fewer edges than one run over
\* all the blocks of the deepest level would give
SeveralRunsWitness ==
    /\ pc = "done"
    /\ Cardinality(DeepestBlocks) >= 3
    /\ Len(cross_edges) >= 1
    /\ Len(cross_edges) < Cardinality(DeepestBlocks) - 1

====
